---- MODULE Spec2Model ----
(***************************************************************************)
(* A model of supfile.go: the Supfile document model of sup.               *)
(*                                                                         *)
(*   - NewSupfile's version switch (the fallthrough chain of cases)        *)
(*   - EnvList.Set and EnvList.ResolveValues                               *)
(*   - Network.ParseInventory                                              *)
(*   - NewHost                                                             *)
(*   - Networks.Get / Networks.Set                                         *)
(*                                                                         *)
(* A Go pointer that may be nil is modelled as a set with at most one      *)
(* element: {} is nil, {x} points to x.  A Go string is either an atom     *)
(* (names, versions) or, where the code looks inside it, a sequence of     *)
(* characters or tokens.                                                   *)
(***************************************************************************)
EXTENDS Integers, Sequences, FiniteSets, TLC

VARIABLES
    \* NewSupfile
    data,       \* the document as yaml.Unmarshal decoded it (the input)
    conf,       \* the local variable conf of NewSupfile
    pc,         \* position of NewSupfile in its switch statement
    retDoc,     \* returned *Supfile: {} is nil
    retErr,     \* returned error:    {} is nil
    stderr,     \* what was written to os.Stderr, one element per Fprintln
    visited,    \* the case bodies of the switch executed so far, in order
    \* EnvList
    env,        \* the EnvList *e
    envBefore,  \* the list before the last call of Set
    setArgs,    \* the arguments of the last call of Set: {} before any
    firstSet,   \* the keys in the order in which they were first Set
    nSets,      \* the number of calls of Set so far
    declared,   \* the list as it was when ResolveValues was called
    rpc,        \* position of ResolveValues
    idx,        \* the loop variable i: entries processed so far
    exports,    \* the local variable exports
    scripts,    \* the scripts handed to bash -c, in order
    resErr,     \* returned error: {} is nil
    \* Network.ParseInventory
    nw,         \* the receiver n, a Network
    output,     \* the standard output of the inventory command
    buf,        \* the unread part of the bytes.Buffer over output
    hosts,      \* the local variable hosts
    ipc,        \* position of ParseInventory
    invErr,     \* returned error: {} is nil
    \* NewHost
    hostStr,    \* the argument of NewHost
    extractedHostSSHConfig, \* the package's SSH-config table
    hpc,        \* position of NewHost
    host,       \* returned *Host: {} is nil
    hostErr,    \* returned error: {} is nil
    \* Networks
    Names,      \* Networks.Names
    nets        \* Networks.nets

gateVars == <<data, conf, pc, retDoc, retErr, stderr, visited>>
setVars == <<env, envBefore, setArgs, firstSet, nSets>>
resolveVars == <<declared, rpc, idx, exports, scripts, resErr>>
envVars == <<setVars, resolveVars>>

invVars == <<nw, output, buf, hosts, ipc, invErr>>
hostVars == <<hostStr, extractedHostSSHConfig, hpc, host, hostErr>>
netVars == <<Names, nets>>

vars == <<gateVars, envVars, invVars, hostVars, netVars>>
notGate == <<envVars, invVars, hostVars, netVars>>
notEnv == <<gateVars, invVars, hostVars, netVars>>
notInv == <<gateVars, envVars, hostVars, netVars>>
notHost == <<gateVars, envVars, invVars, netVars>>
notNets == <<gateVars, envVars, invVars, hostVars>>

-----------------------------------------------------------------------------
(* Supfile, Commands, Command, Networks, Network as the version switch    *)
(* reads them.                                                            *)

CmdNames == {"build", "deploy"}
NetNames == {"prod"}
SerialValues == {0, 2}
InventoryValues == {"", "hosts.sh"}
Versions == {"", "0.1", "0.2", "0.3", "0.4", "0.5", "9.9"}

Command == [Once : BOOLEAN, Local : BOOLEAN, Serial : SerialValues, RunOnce : BOOLEAN]

Network == [Inventory : InventoryValues]

\* a Go map[string]T decoded from YAML: a function on a subset of the names
MapsTo(names, T) == UNION {[D -> T] : D \in SUBSET names}

Supfile == [Version : Versions,
            Commands : MapsTo(CmdNames, Command),
            Networks : MapsTo(NetNames, Network)]

ErrMustUpdate(feature, version) ==
    [kind |-> "ErrMustUpdate", Msg |-> <<feature, " is not supported in Supfile v", version>>]

ErrUnsupportedSupfileVersion(version) ==
    [kind |-> "ErrUnsupportedSupfileVersion", Msg |-> <<"unsupported Supfile version ", version, "">>]

-----------------------------------------------------------------------------
(* The loops of the case bodies.  Go ranges over a map in an unspecified   *)
(* order, so a loop that returns at the first offending entry can return   *)
(* for any offending entry: each operator gives the set of errors the loop *)
(* can return, {} when it runs to its end.                                 *)

\* case "0.1": for _, cmd := range conf.Commands.cmds { if cmd.RunOnce ... }
RunOnceErrs(c) ==
    {ErrMustUpdate("command.run_once", c.Version) :
        k \in {k \in DOMAIN c.Commands : c.Commands[k].RunOnce}}

\* the body of that loop with the check of cmd.Serial left out
CommandErrsNoSerial(cmd, version) ==
    IF cmd.Once THEN {ErrMustUpdate("command.once", version)}
    ELSE IF cmd.Local THEN {ErrMustUpdate("command.local", version)}
    ELSE {}

\* case "0.2", body of the loop over commands: the first check that fires
CommandErrs(cmd, version) ==
    IF cmd.Once THEN {ErrMustUpdate("command.once", version)}
    ELSE IF cmd.Local THEN {ErrMustUpdate("command.local", version)}
    ELSE IF cmd.Serial # 0 THEN {ErrMustUpdate("command.serial", version)}
    ELSE {}

\* case "0.2", the loop over networks
InventoryErrs(c) ==
    {ErrMustUpdate("network.inventory", c.Version) :
        k \in {k \in DOMAIN c.Networks : c.Networks[k].Inventory # ""}}

\* case "0.2": the commands loop, then the networks loop
FeatureErrs(c) ==
    LET cmdErrs == UNION {CommandErrs(c.Commands[k], c.Version) : k \in DOMAIN c.Commands}
    IN  IF cmdErrs # {} THEN cmdErrs ELSE InventoryErrs(c)

\* case "0.3" with the write-back conf.Commands.cmds[key] = cmd left out
MigrateCopyOnly(c) == c

\* case "0.3": cmd.Once = true; conf.Commands.cmds[key] = cmd
Migrate(c) ==
    [c EXCEPT !.Commands =
        [k \in DOMAIN c.Commands |->
            IF c.Commands[k].RunOnce
            THEN [c.Commands[k] EXCEPT !.Once = TRUE]
            ELSE c.Commands[k]]]

DeprecationWarning(version) ==
    <<"Warning: command.run_once was deprecated by command.once in Supfile v", version>>

\* case "0.3" with the Fprintln moved into the loop: one line per command
WarningsPerCommand(c) ==
    LET n == Cardinality({k \in DOMAIN c.Commands : c.Commands[k].RunOnce})
    IN  [j \in 1..n |-> DeprecationWarning(c.Version)]

\* case "0.3": the variable warning is overwritten by every offending
\* command and printed once after the loop, if it is not empty
Warnings(c) ==
    IF \E k \in DOMAIN c.Commands : c.Commands[k].RunOnce
    THEN <<DeprecationWarning(c.Version)>>
    ELSE <<>>

-----------------------------------------------------------------------------
(* NewSupfile, one action per case of the switch.                          *)

InitGate ==
    /\ data \in Supfile
    /\ conf = data
    /\ pc = "switch"
    /\ retDoc = {}
    /\ retErr = {}
    /\ stderr = <<>>
    /\ visited = <<>>

IdleGate ==
    /\ data = [Version |-> "0.5", Commands |-> <<>>, Networks |-> <<>>]
    /\ conf = data
    /\ pc = "idle"
    /\ retDoc = {}
    /\ retErr = {}
    /\ stderr = <<>>
    /\ visited = <<>>

Return(doc, err) ==
    /\ pc' = "return"
    /\ retDoc' = doc
    /\ retErr' = err

Fallthrough(label) ==
    /\ pc' = label
    /\ UNCHANGED <<retDoc, retErr>>

\* switch conf.Version
Switch ==
    /\ pc = "switch"
    /\ pc' = CASE conf.Version = ""    -> "case_empty"
               [] conf.Version = "0.1" -> "case_0.1"
               [] conf.Version = "0.2" -> "case_0.2"
               [] conf.Version = "0.3" -> "case_0.3"
               [] conf.Version \in {"0.4", "0.5"} -> "case_0.4"
               [] OTHER -> "default"
    /\ UNCHANGED <<data, conf, retDoc, retErr, stderr, visited>>
    /\ UNCHANGED notGate

\* case "" with the assignment conf.Version = "0.1" left out
CaseEmptyKeepVersion ==
    /\ pc = "case_empty"
    /\ Fallthrough("case_0.1")
    /\ UNCHANGED <<data, conf, stderr, visited>>
    /\ UNCHANGED notGate

\* case "": conf.Version = "0.1"; fallthrough
CaseEmpty ==
    /\ pc = "case_empty"
    /\ conf' = [conf EXCEPT !.Version = "0.1"]
    /\ Fallthrough("case_0.1")
    /\ UNCHANGED <<data, stderr, visited>>
    /\ UNCHANGED notGate

\* case "0.1" with a break in place of the fallthrough
Case01Break ==
    /\ pc = "case_0.1"
    /\ visited' = Append(visited, "0.1")
    /\ IF RunOnceErrs(conf) # {}
       THEN \E err \in RunOnceErrs(conf) : Return({}, {err})
       ELSE Return({conf}, {})
    /\ UNCHANGED <<data, conf, stderr>>
    /\ UNCHANGED notGate

\* case "0.1"
Case01 ==
    /\ pc = "case_0.1"
    /\ visited' = Append(visited, "0.1")
    /\ IF RunOnceErrs(conf) # {}
       THEN \E err \in RunOnceErrs(conf) : Return({}, {err})
       ELSE Fallthrough("case_0.2")
    /\ UNCHANGED <<data, conf, stderr>>
    /\ UNCHANGED notGate

\* case "0.2"
Case02 ==
    /\ pc = "case_0.2"
    /\ visited' = Append(visited, "0.2")
    /\ IF FeatureErrs(conf) # {}
       THEN \E err \in FeatureErrs(conf) : Return({}, {err})
       ELSE Fallthrough("case_0.3")
    /\ UNCHANGED <<data, conf, stderr>>
    /\ UNCHANGED notGate

\* case "0.3"
Case03 ==
    /\ pc = "case_0.3"
    /\ visited' = Append(visited, "0.3")
    /\ conf' = Migrate(conf)
    /\ stderr' = stderr \o Warnings(conf)
    /\ Fallthrough("case_0.4")
    /\ UNCHANGED data
    /\ UNCHANGED notGate

\* case "0.4", "0.5": empty body, then return &conf, nil
Case04 ==
    /\ pc = "case_0.4"
    /\ Return({conf}, {})
    /\ UNCHANGED <<data, conf, stderr, visited>>
    /\ UNCHANGED notGate

\* default
Default ==
    /\ pc = "default"
    /\ Return({}, {ErrUnsupportedSupfileVersion(conf.Version)})
    /\ UNCHANGED <<data, conf, stderr, visited>>
    /\ UNCHANGED notGate

NextGate ==
    \/ Switch
    \/ CaseEmpty
    \/ Case01
    \/ Case02
    \/ Case03
    \/ Case04
    \/ Default

-----------------------------------------------------------------------------
(* Properties of NewSupfile.                                               *)

Returned == pc = "return"
Accepted == pc = "return" /\ retErr = {} /\ retDoc # {}
RunOnceNames(c) == {k \in DOMAIN c.Commands : c.Commands[k].RunOnce}

VersionRank(v) ==
    CASE v \in {"", "0.1"} -> 1
      [] v = "0.2" -> 2
      [] v = "0.3" -> 3
      [] v = "0.4" -> 4
      [] v = "0.5" -> 5
      [] OTHER -> 9

RuleLabels == <<"0.1", "0.2", "0.3">>

\* the labels of RuleLabels whose rank is in ranks, in ascending order
RulesRanked(ranks) ==
    LET F[i \in 0..Len(RuleLabels)] ==
            IF i = 0 THEN <<>>
            ELSE IF VersionRank(RuleLabels[i]) \in ranks
                 THEN Append(F[i-1], RuleLabels[i])
                 ELSE F[i-1]
    IN  F[Len(RuleLabels)]

IsPrefix(s, t) == Len(s) <= Len(t) /\ \A i \in 1..Len(s) : s[i] = t[i]

\* C1 as claimed: in a returned document no command has the deprecated
\* RunOnce flag and its replacement Once both true.
C1_NeverBothFlags ==
    Accepted => \A d \in retDoc : \A k \in DOMAIN d.Commands :
                    ~(d.Commands[k].RunOnce /\ d.Commands[k].Once)

\* C1 as amended: in a document returned for a declared version of at most
\* 0.3 every command with RunOnce true has Once true as well (RunOnce stays
\* set), and for 0.4 and 0.5 the commands are returned as they were declared.
C1_RunOnceImpliesOnce ==
    Accepted => \A d \in retDoc :
        /\ VersionRank(data.Version) <= 3 =>
              \A k \in DOMAIN d.Commands :
                  /\ d.Commands[k].RunOnce = data.Commands[k].RunOnce
                  /\ d.Commands[k].RunOnce => d.Commands[k].Once
        /\ data.Version \in {"0.4", "0.5"} => d.Commands = data.Commands

C1_Witness ==
    /\ Accepted
    /\ data.Version = "0.2"
    /\ \E d \in retDoc : \E k \in DOMAIN d.Commands :
          d.Commands[k].RunOnce /\ d.Commands[k].Once /\ ~data.Commands[k].Once

\* C2 as claimed: an accepted document of declared version V was validated
\* against the rules of every version <= V, in ascending order.
C2_RulesUpToVersion ==
    (Accepted /\ VersionRank(data.Version) <= 5) =>
        visited = RulesRanked(1..VersionRank(data.Version))

\* C2 as amended: the switch enters at the case of the declared version
\* (absent counts as 0.1) and falls through: the case bodies run are those
\* of the labels >= V, in ascending order, up to the first one that rejects;
\* an accepted document has run all of them, and 0.4 and 0.5 run none.
C2_RulesFromVersion ==
    (Returned /\ VersionRank(data.Version) <= 5) =>
        LET from == RulesRanked(VersionRank(data.Version)..3)
        IN  /\ IsPrefix(visited, from)
            /\ retErr = {} => visited = from
            /\ retErr # {} => visited # <<>>

C2_Witness ==
    /\ Accepted
    /\ data.Version = "0.1"
    /\ visited = <<"0.1", "0.2", "0.3">>

UsesNewFeature(c) ==
    \/ \E k \in DOMAIN c.Commands :
          c.Commands[k].Once \/ c.Commands[k].Local \/ c.Commands[k].Serial # 0
    \/ \E k \in DOMAIN c.Networks : c.Networks[k].Inventory # ""

\* C3: a document of declared version at most 0.2 with a command that has
\* Once, Local or a non-zero Serial, or a network with an Inventory, is
\* rejected with an ErrMustUpdate and no document; under 0.4 or 0.5 the
\* same document is accepted.
C3_NewFeaturesRejected ==
    (Returned /\ UsesNewFeature(data)) =>
        /\ VersionRank(data.Version) <= 2 =>
              /\ retDoc = {}
              /\ retErr # {}
              /\ \A e \in retErr : e.kind = "ErrMustUpdate"
        /\ data.Version \in {"0.4", "0.5"} =>
              /\ retErr = {}
              /\ retDoc = {data}

C3_Witness ==
    /\ Returned
    /\ data.Version = "0.2"
    /\ \E k \in DOMAIN data.Commands :
          /\ data.Commands[k].Serial # 0
          /\ ~data.Commands[k].Once
          /\ ~data.Commands[k].Local
    /\ retErr = {ErrMustUpdate("command.serial", "0.2")}

\* what the 0.3 migration is to leave: Once set where RunOnce is, the rest as declared
MigratedCommands(c) ==
    [k \in DOMAIN c.Commands |->
        [Once    |-> c.Commands[k].Once \/ c.Commands[k].RunOnce,
         Local   |-> c.Commands[k].Local,
         Serial  |-> c.Commands[k].Serial,
         RunOnce |-> c.Commands[k].RunOnce]]

\* C4 as claimed: a 0.3 document is accepted, its RunOnce commands get Once,
\* and one warning is written per command that had RunOnce.
C4_WarningPerCommand ==
    (Returned /\ data.Version = "0.3") =>
        /\ retErr = {}
        /\ \A d \in retDoc : d.Commands = MigratedCommands(data)
        /\ Len(stderr) = Cardinality(RunOnceNames(data))

\* C4 as amended: a 0.3 document is accepted, its RunOnce commands get Once
\* and the others are unchanged, and a single warning is written if at least
\* one command had RunOnce, none otherwise.
C4_OneWarning ==
    (Returned /\ data.Version = "0.3") =>
        /\ retErr = {}
        /\ retDoc # {}
        /\ \A d \in retDoc : d.Commands = MigratedCommands(data)
        /\ stderr = IF RunOnceNames(data) # {}
                    THEN <<DeprecationWarning("0.3")>>
                    ELSE <<>>

C4_Witness ==
    /\ Accepted
    /\ data.Version = "0.3"
    /\ Cardinality(RunOnceNames(data)) = 2
    /\ \E k \in RunOnceNames(data) : ~data.Commands[k].Once
    /\ Len(stderr) = 1

\* C5: a document without a version enters case "0.1" in the state a "0.1"
\* document enters it in, and for both a command with RunOnce makes
\* NewSupfile return ErrMustUpdate and no document, with no command
\* migrated and nothing after case "0.1" run.
C5_AbsentIsV01 ==
    /\ (pc = "case_0.1" /\ data.Version = "") =>
          /\ conf = [data EXCEPT !.Version = "0.1"]
          /\ visited = <<>> /\ stderr = <<>> /\ retDoc = {} /\ retErr = {}
    /\ (Returned /\ VersionRank(data.Version) = 1 /\ RunOnceNames(data) # {}) =>
          /\ retDoc = {}
          /\ retErr = {ErrMustUpdate("command.run_once", "0.1")}
          /\ conf.Commands = data.Commands
          /\ stderr = <<>>
          /\ visited = <<"0.1">>

C5_Witness ==
    /\ Returned
    /\ data.Version = ""
    /\ RunOnceNames(data) # {}
    /\ retErr = {ErrMustUpdate("command.run_once", "0.1")}


-----------------------------------------------------------------------------
(* EnvVar and EnvList.  A value is a string the shell will expand: a       *)
(* sequence of tokens, each a literal piece of text or a reference $KEY.   *)

MaxTok == 2
MaxSets == 4

EnvKeys == {"FOO", "BAZ"}
Literals == {"bar", "-baz"}
VarOf == [t \in {"$FOO", "$BAZ"} |-> IF t = "$FOO" THEN "FOO" ELSE "BAZ"]
Tokens == Literals \cup DOMAIN VarOf

SeqsUpTo(S, n) == UNION {[1..m -> S] : m \in 0..n}

\* the values a document declares
RawValues == SeqsUpTo(Tokens, MaxTok)
\* the values the callers of Set pass
SetValues == {<<"bar">>, <<"$FOO", "-baz">>}

EnvVar == [Key : EnvKeys, Value : RawValues]

\* EnvVar.AsExport: `export KEY="VALUE";`, one shell statement
AsExport(v) == <<[cmd |-> "export", key |-> v.Key, value |-> v.Value]>>

\* "echo -n " + v.Value + ";"
EchoN(v) == <<[cmd |-> "echo -n", key |-> "", value |-> v.Value]>>

\* EnvList.Set that appends without looking for the key
SetAppendOnly(list, key, value) == Append(list, [Key |-> key, Value |-> value])

\* EnvList.Set: overwrite the first entry with the key, or append
Set(list, key, value) ==
    LET hits == {i \in 1..Len(list) : list[i].Key = key}
    IN  IF hits # {}
        THEN LET i == CHOOSE i \in hits : \A j \in hits : i <= j
             IN  [list EXCEPT ![i].Value = value]
        ELSE Append(list, [Key |-> key, Value |-> value])

\* what bash -c does with a script of export and echo -n statements: its
\* standard output.  A reference to a variable that is not set expands to
\* nothing (the variables of the chain are taken not to be in os.Environ).
Expand(value, shellEnv) ==
    LET F[n \in 0..Len(value)] ==
            IF n = 0 THEN <<>>
            ELSE IF value[n] \in DOMAIN VarOf
                 THEN F[n-1] \o shellEnv[VarOf[value[n]]]
                 ELSE Append(F[n-1], value[n])
    IN  F[Len(value)]

Bash(script) ==
    LET S[n \in 0..Len(script)] ==
            IF n = 0 THEN [env |-> [k \in EnvKeys |-> <<>>], out |-> <<>>]
            ELSE LET st == script[n]
                     prev == S[n-1]
                 IN  IF st.cmd = "export"
                     THEN [prev EXCEPT !.env[st.key] = Expand(st.value, prev.env)]
                     ELSE [prev EXCEPT !.out = prev.out \o Expand(st.value, prev.env)]
    IN  S[Len(script)].out

\* one iteration of the loop of ResolveValues with the export statement
\* built after the command ran, from the captured output
IterationExportResolved(acc, v) ==
    LET script == acc \o AsExport(v) \o EchoN(v)
        out == Bash(script)
    IN  [exports |-> acc \o AsExport([v EXCEPT !.Value = out]),
         script |-> script,
         out |-> out]

\* one iteration of the loop of ResolveValues:
\*   exports += v.AsExport(); bash -c exports+"echo -n "+v.Value+";"
Iteration(acc, v) ==
    LET ex == acc \o AsExport(v)
        script == ex \o EchoN(v)
    IN  [exports |-> ex, script |-> script, out |-> Bash(script)]

IdleResolve ==
    /\ declared = <<>>
    /\ rpc = "idle"
    /\ idx = 0
    /\ exports = <<>>
    /\ scripts = <<>>
    /\ resErr = {}

\* the empty list, before any Set
InitSet ==
    /\ env = <<>>
    /\ envBefore = <<>>
    /\ setArgs = {}
    /\ firstSet = <<>>
    /\ nSets = 0
    /\ IdleResolve

IdleEnv == InitSet

\* e.Set(key, value), as UnmarshalYAML calls it for every item and as the
\* callers of the package do
EnvSet ==
    /\ nSets < MaxSets
    /\ \E key \in EnvKeys, value \in SetValues :
          /\ env' = Set(env, key, value)
          /\ envBefore' = env
          /\ setArgs' = {[key |-> key, value |-> value]}
          /\ firstSet' = IF \E i \in 1..Len(firstSet) : firstSet[i] = key
                         THEN firstSet ELSE Append(firstSet, key)
    /\ nSets' = nSets + 1
    /\ UNCHANGED resolveVars
    /\ UNCHANGED notEnv

\* the lists UnmarshalYAML builds: distinct keys, declared values
DeclaredLists ==
    {l \in SeqsUpTo(EnvVar, Cardinality(EnvKeys)) :
        \A i, j \in 1..Len(l) : l[i].Key = l[j].Key => i = j}

InitResolve ==
    /\ env \in DeclaredLists
    /\ envBefore = <<>>
    /\ setArgs = {}
    /\ firstSet = <<>>
    /\ nSets = 0
    /\ declared = env
    /\ rpc = "start"
    /\ idx = 0
    /\ exports = <<>>
    /\ scripts = <<>>
    /\ resErr = {}

\* if len(*e) == 0 { return nil }; exports := ""
ResolveStart ==
    /\ rpc = "start"
    /\ rpc' = IF Len(env) = 0 THEN "done" ELSE "loop"
    /\ exports' = <<>>
    /\ UNCHANGED <<env, envBefore, setArgs, firstSet, nSets, declared, idx, scripts, resErr>>
    /\ UNCHANGED notEnv

\* an iteration in which os.Getwd fails: return err
ResolveGetwdFails ==
    /\ rpc = "loop"
    /\ idx < Len(env)
    /\ exports' = Iteration(exports, env[idx + 1]).exports
    /\ resErr' = {[msg |-> "getwd", key |-> ""]}
    /\ rpc' = "done"
    /\ UNCHANGED <<env, envBefore, setArgs, firstSet, nSets, declared, idx, scripts>>
    /\ UNCHANGED notEnv

\* an iteration in which the command fails: the error names the key
ResolveCommandFails ==
    /\ rpc = "loop"
    /\ idx < Len(env)
    /\ LET it == Iteration(exports, env[idx + 1])
       IN  /\ exports' = it.exports
           /\ scripts' = Append(scripts, it.script)
    /\ resErr' = {[msg |-> "resolving env var failed", key |-> env[idx + 1].Key]}
    /\ rpc' = "done"
    /\ UNCHANGED <<env, envBefore, setArgs, firstSet, nSets, declared, idx>>
    /\ UNCHANGED notEnv

\* an iteration in which the command succeeds: (*e)[i].Value = output
ResolveIteration ==
    /\ rpc = "loop"
    /\ idx < Len(env)
    /\ LET it == Iteration(exports, env[idx + 1])
       IN  /\ exports' = it.exports
           /\ scripts' = Append(scripts, it.script)
           /\ env' = [env EXCEPT ![idx + 1].Value = it.out]
    /\ idx' = idx + 1
    /\ UNCHANGED <<envBefore, setArgs, firstSet, nSets, declared, rpc, resErr>>
    /\ UNCHANGED notEnv

\* the loop is over: return nil
ResolveReturn ==
    /\ rpc = "loop"
    /\ idx = Len(env)
    /\ rpc' = "done"
    /\ UNCHANGED <<env, envBefore, setArgs, firstSet, nSets, declared, idx, exports, scripts, resErr>>
    /\ UNCHANGED notEnv

NextSet == EnvSet

NextResolve ==
    \/ ResolveStart
    \/ ResolveGetwdFails
    \/ ResolveCommandFails
    \/ ResolveIteration
    \/ ResolveReturn

-----------------------------------------------------------------------------
(* Properties of EnvList.                                                  *)

KeysOf(list) == [i \in 1..Len(list) |-> list[i].Key]

\* C6: Set on a key the list holds changes that entry's value and nothing
\* else (no position, not the length); Set on a new key appends the entry
\* and leaves the others alone.  So from the empty list on, the keys are
\* pairwise distinct and stand in the order of their first Set.
C6_SetOverwritesOrAppends ==
    /\ \A a \in setArgs :
          LET hits == {i \in 1..Len(envBefore) : envBefore[i].Key = a.key}
          IN  IF hits # {}
              THEN /\ Len(env) = Len(envBefore)
                   /\ \A i \in 1..Len(env) :
                         /\ env[i].Key = envBefore[i].Key
                         /\ env[i].Value = IF i \in hits THEN a.value
                                           ELSE envBefore[i].Value
              ELSE /\ Len(env) = Len(envBefore) + 1
                   /\ env[Len(env)] = [Key |-> a.key, Value |-> a.value]
                   /\ \A i \in 1..Len(envBefore) : env[i] = envBefore[i]
    /\ \A i, j \in 1..Len(env) : env[i].Key = env[j].Key => i = j
    /\ KeysOf(env) = firstSet

C6_Witness ==
    /\ Len(env) = 2
    /\ Len(envBefore) = 2
    /\ \E a \in setArgs :
          /\ envBefore[1].Key = a.key
          /\ envBefore[1].Value # a.value
          /\ env[1].Value = a.value
          /\ env[2] = envBefore[2]

\* the export statements of the first n declared entries
DeclaredExports(n) ==
    LET F[m \in 0..n] ==
            IF m = 0 THEN <<>>
            ELSE F[m-1] \o <<[cmd |-> "export", key |-> declared[m].Key,
                              value |-> declared[m].Value]>>
    IN  F[n]

ChainDeclared == <<[Key |-> "FOO", Value |-> <<"bar">>],
                   [Key |-> "BAZ", Value |-> <<"$FOO", "-baz">>]>>
ChainResolved == <<[Key |-> "FOO", Value |-> <<"bar">>],
                   [Key |-> "BAZ", Value |-> <<"bar", "-baz">>]>>

\* C7: ResolveValues runs one script per entry, in list order; the script
\* for entry i is the export statements of the declared (raw) values of
\* entries 1..i followed by echo -n of entry i's declared value, and no
\* captured output is ever part of it.  Entry i's value becomes the output
\* of its script, the entries not reached keep their declared value, and
\* [FOO=bar, BAZ=$FOO-baz] resolves to FOO = bar, BAZ = bar-baz.
C7_ScriptsFromDeclaredValues ==
    rpc \in {"loop", "done"} =>
        /\ Len(env) = Len(declared)
        /\ idx <= Len(scripts) /\ Len(scripts) <= idx + 1
        /\ Len(scripts) = idx + 1 => resErr # {}
        /\ \A j \in 1..Len(scripts) :
              scripts[j] = DeclaredExports(j) \o
                  <<[cmd |-> "echo -n", key |-> "", value |-> declared[j].Value]>>
        /\ \A j \in 1..Len(env) :
              /\ env[j].Key = declared[j].Key
              /\ env[j].Value = IF j <= idx THEN Bash(scripts[j]) ELSE declared[j].Value
        /\ (rpc = "done" /\ resErr = {}) => idx = Len(declared)
        /\ (rpc = "done" /\ resErr = {} /\ declared = ChainDeclared) => env = ChainResolved

C7_Witness ==
    /\ rpc = "done"
    /\ resErr = {}
    /\ declared = ChainDeclared
    /\ env = ChainResolved
    /\ Len(scripts) = 2


-----------------------------------------------------------------------------
(* Host, and Network.ParseInventory.  The output of the inventory command *)
(* is a sequence of characters.                                            *)

MaxOut == 4

Chars == {"a", "b", "#", " ", "\n"}
Space == {" ", "\n"}
Outputs == SeqsUpTo(Chars, MaxOut)

\* &Host{Address: address}: the other fields are the empty string
HostWithAddress(address) ==
    [Address |-> address, Port |-> <<>>, User |-> <<>>,
     IdentityFile |-> <<>>, KnownAs |-> <<>>, Bastion |-> <<>>]

\* strings.TrimSpace
TrimSpace(str) ==
    LET keep == {i \in 1..Len(str) : str[i] \notin Space}
    IN  IF keep = {} THEN <<>>
        ELSE LET lo == CHOOSE i \in keep : \A j \in keep : i <= j
                 hi == CHOOSE i \in keep : \A j \in keep : j <= i
             IN  SubSeq(str, lo, hi)

\* bytes.Buffer.ReadString('\n'): the bytes up to and including the first
\* delimiter; without a delimiter, the bytes that are left and io.EOF
ReadString(b) ==
    LET nl == {i \in 1..Len(b) : b[i] = "\n"}
    IN  IF nl = {}
        THEN [line |-> b, rest |-> <<>>, eof |-> TRUE]
        ELSE LET i == CHOOSE i \in nl : \A j \in nl : i <= j
             IN  [line |-> SubSeq(b, 1, i), rest |-> SubSeq(b, i + 1, Len(b)), eof |-> FALSE]

InitInv ==
    /\ nw \in [Inventory : InventoryValues]
    /\ output = <<>>
    /\ buf = <<>>
    /\ hosts = <<>>
    /\ ipc = "start"
    /\ invErr = {}

IdleInv ==
    /\ nw = [Inventory |-> ""]
    /\ output = <<>>
    /\ buf = <<>>
    /\ hosts = <<>>
    /\ ipc = "idle"
    /\ invErr = {}

\* if nw.Inventory == "" { return nil, nil }
InvNoInventory ==
    /\ ipc = "start"
    /\ nw.Inventory = ""
    /\ ipc' = "done"
    /\ UNCHANGED <<nw, output, buf, hosts, invErr>>
    /\ UNCHANGED notInv

\* cmd.Output() fails: return nil, err
InvCommandFails ==
    /\ ipc = "start"
    /\ nw.Inventory # ""
    /\ invErr' = {"exit status 1"}
    /\ ipc' = "done"
    /\ UNCHANGED <<nw, output, buf, hosts>>
    /\ UNCHANGED notInv

\* cmd.Output() succeeds: buf := bytes.NewBuffer(output)
InvCommandOutput ==
    /\ ipc = "start"
    /\ nw.Inventory # ""
    /\ \E out \in Outputs :
          /\ output' = out
          /\ buf' = out
    /\ ipc' = "loop"
    /\ UNCHANGED <<nw, hosts, invErr>>
    /\ UNCHANGED notInv

\* one iteration of the for loop
InvReadLine ==
    /\ ipc = "loop"
    /\ LET r == ReadString(buf)
           line == TrimSpace(r.line)
       IN  /\ buf' = r.rest
           /\ IF r.eof
              THEN /\ ipc' = "done"             \* break; return hosts, nil
                   /\ hosts' = hosts
              ELSE /\ ipc' = "loop"
                   /\ hosts' = IF line = <<>> \/ line[1] = "#"
                               THEN hosts       \* continue
                               ELSE Append(hosts, HostWithAddress(line))
    /\ UNCHANGED <<nw, output, invErr>>
    /\ UNCHANGED notInv

NextInv ==
    \/ InvNoInventory
    \/ InvCommandFails
    \/ InvCommandOutput
    \/ InvReadLine

-----------------------------------------------------------------------------
(* Properties of ParseInventory.                                           *)

\* the lines of a text: the pieces between the newlines, the last one
\* included whether a newline ends it or not
LinesOf(text) ==
    LET F[i \in 0..Len(text)] ==
            \* <<lines completed, current line>>
            IF i = 0 THEN <<<<>>, <<>>>>
            ELSE IF text[i] = "\n"
                 THEN <<Append(F[i-1][1], F[i-1][2]), <<>>>>
                 ELSE <<F[i-1][1], Append(F[i-1][2], text[i])>>
    IN  Append(F[Len(text)][1], F[Len(text)][2])

IsHostLine(line) == TrimSpace(line) # <<>> /\ TrimSpace(line)[1] # "#"

ExpectedHosts(text) ==
    LET ls == LinesOf(text)
        F[i \in 0..Len(ls)] ==
            IF i = 0 THEN <<>>
            ELSE IF IsHostLine(ls[i])
                 THEN Append(F[i-1], HostWithAddress(TrimSpace(ls[i])))
                 ELSE F[i-1]
    IN  F[Len(ls)]

InvSucceeded == ipc = "done" /\ invErr = {} /\ nw.Inventory # ""

\* C8 as claimed: when the command succeeds the hosts returned are, in
\* order, one per line of the output that is not blank and no comment after
\* trimming, whether or not a newline ends the last line.
C8_EveryLineIsParsed ==
    InvSucceeded => hosts = ExpectedHosts(output)

\* What the code does instead: the same, for the lines that a newline ends;
\* the text after the last newline is dropped.
C8_TerminatedLinesAreParsed ==
    InvSucceeded =>
        LET nl == {i \in 1..Len(output) : output[i] = "\n"}
            last == IF nl = {} THEN 0 ELSE CHOOSE i \in nl : \A j \in nl : j <= i
        IN  hosts = ExpectedHosts(SubSeq(output, 1, last))

C8_TerminatedWitness ==
    /\ InvSucceeded
    /\ output = <<"a", "\n", "b", "\n">>
    /\ hosts = <<HostWithAddress(<<"a">>), HostWithAddress(<<"b">>)>>

-----------------------------------------------------------------------------
(* NewHost.  The host string is a sequence of tokens: the scheme, the      *)
(* separators "@", ":" and "/", and pieces of text without any of them.    *)

MaxHostLen == 3

Scheme == "ssh://"
OSUser == <<"alice">>
HomeDir == "/home/alice/"

SchemeParts == {<<>>, <<Scheme>>}
UserParts == {<<>>, <<"@">>, <<"deploy", "@">>, <<"deploy", "@", "deploy", "@">>}
HostParts == SeqsUpTo({"web", "10.0.0.5", ":", "2200", "/"}, MaxHostLen)
HostStrings == {sch \o u \o h : sch \in SchemeParts, u \in UserParts, h \in HostParts}

\* the entry of the SSH-config table for the alias web
WebConfig ==
    [Host |-> <<<<"web">>, <<"web.internal">>>>,
     HostName |-> <<"10.0.0.9">>,
     User |-> <<"root">>,
     Port |-> 2222,
     IdentityFile |-> <<"~/", ".ssh/id_rsa">>,
     ProxyJump |-> <<"jump">>]

SSHConfigs == {<<>>, (<<"web">> :> WebConfig)}

\* fmt.Sprintf("%d", port): the decimal digits of the number
DecimalString(num) ==
    LET Digit == [d \in 0..9 |-> <<"0", "1", "2", "3", "4", "5", "6", "7", "8", "9">>[d + 1]]
        D[m \in 0..num] == IF m < 10 THEN <<Digit[m]>>
                           ELSE Append(D[m \div 10], Digit[m % 10])
    IN  D[num]

\* ResolvePath: a leading ~/ becomes the home directory
ResolvePath(path) ==
    IF path # <<>> /\ path[1] = "~/" THEN <<HomeDir>> \o Tail(path) ELSE path

Contains(str, toks) == \E i \in 1..Len(str) : str[i] \in toks
LastIndex(str, tok) ==
    LET at == {i \in 1..Len(str) : str[i] = tok}
    IN  IF at = {} THEN 0 ELSE CHOOSE i \in at : \A j \in at : j <= i

\* net.SplitHostPort for a string with a colon and no brackets: split at
\* the last colon; a colon left in the host is an error
SplitHostPort(hostport) ==
    LET i == LastIndex(hostport, ":")
        h == SubSeq(hostport, 1, i - 1)
    IN  IF Contains(h, {":"})
        THEN [host |-> <<>>, port |-> <<>>, err |-> {"too many colons in address"}]
        ELSE [host |-> h, port |-> SubSeq(hostport, i + 1, Len(hostport)), err |-> {}]

\* the if found { ... } block, with the user and the port written inline
\* kept when there are any
FromSSHConfigInlineWins(h, sshconf, inlineUser, inlinePort) ==
    [User |-> IF inlineUser THEN h.User ELSE sshconf.User,
     IdentityFile |-> ResolvePath(sshconf.IdentityFile),
     Address |-> sshconf.HostName,
     Port |-> IF inlinePort THEN h.Port ELSE DecimalString(sshconf.Port),
     KnownAs |-> sshconf.Host[1],
     Bastion |-> sshconf.ProxyJump]

\* the if found { ... } block
FromSSHConfig(h, sshconf, inlineUser, inlinePort) ==
    [User |-> sshconf.User,
     IdentityFile |-> ResolvePath(sshconf.IdentityFile),
     Address |-> sshconf.HostName,
     Port |-> DecimalString(sshconf.Port),
     KnownAs |-> sshconf.Host[1],
     Bastion |-> sshconf.ProxyJump]

\* NewHost(hostStr), with the table it reads and what user.Current()
\* gives: current is {} when it fails, {name} otherwise
NewHost(str, table, current) ==
    LET s1 == IF Len(str) > 1 /\ str[1] = Scheme THEN Tail(str) ELSE str
        at == LastIndex(s1, "@")
        inlineUser == IF at # 0 THEN SubSeq(s1, 1, at - 1) ELSE <<>>
        s2 == IF at # 0 THEN SubSeq(s1, at + 1, Len(s1)) ELSE s1
        hasPort == Contains(s2, {":"})
        split == SplitHostPort(s2)
    IN  IF inlineUser = <<>> /\ current = {}
        THEN [host |-> {}, err |-> {"user: Current not implemented"}]
        ELSE IF Contains(s2, {"/", Scheme})
        THEN [host |-> {}, err |-> {"unexpected slash in the host URL"}]
        ELSE IF hasPort /\ split.err # {}
        THEN [host |-> {}, err |-> split.err]
        ELSE LET h == [User |-> IF inlineUser = <<>>
                                THEN CHOOSE u \in current : TRUE
                                ELSE inlineUser,
                       Address |-> IF hasPort THEN split.host ELSE s2,
                       Port |-> IF hasPort THEN split.port ELSE <<"22">>,
                       IdentityFile |-> <<>>, KnownAs |-> <<>>, Bastion |-> <<>>]
             IN  IF h.Address \in DOMAIN table
                 THEN [host |-> {FromSSHConfig(h, table[h.Address], inlineUser # <<>>, hasPort)},
                       err |-> {}]
                 ELSE [host |-> {h}, err |-> {}]

InitHost ==
    /\ hostStr \in HostStrings
    /\ extractedHostSSHConfig \in SSHConfigs
    /\ hpc = "start"
    /\ host = {}
    /\ hostErr = {}

IdleHost ==
    /\ hostStr = <<>>
    /\ extractedHostSSHConfig = <<>>
    /\ hpc = "idle"
    /\ host = {}
    /\ hostErr = {}

\* a call of NewHost(hostStr)
NewHostCall ==
    /\ hpc = "start"
    /\ \E current \in {{}, {OSUser}} :
          LET r == NewHost(hostStr, extractedHostSSHConfig, current)
          IN  /\ host' = r.host
              /\ hostErr' = r.err
    /\ hpc' = "done"
    /\ UNCHANGED <<hostStr, extractedHostSSHConfig>>
    /\ UNCHANGED notHost

NextHost == NewHostCall

-----------------------------------------------------------------------------
(* Properties of NewHost.                                                  *)

NoneOf(str, toks) == \A i \in 1..Len(str) : str[i] \notin toks

\* C9: for every way of reading the host string as [ssh://][user@]host[:port]
\* (the user ending at the last "@"), a host that is a key of the table
\* gives User, Address, Port, IdentityFile and Bastion of the record and
\* its first alias as KnownAs, whatever user and port are inline; any other
\* host gives the inline user (else the OS user), the inline port (else
\* "22"), the host as Address and the other fields empty.  (A string with
\* nothing after its colon, "host:", is not of that shape.)
C9_SSHConfigWins ==
    (hpc = "done" /\ hostErr = {}) =>
        /\ host # {}
        /\ \A h \in host :
           LET body == IF Len(hostStr) > 1 /\ hostStr[1] = Scheme
                       THEN Tail(hostStr) ELSE hostStr
           IN  \A a \in 0..Len(body), c \in 0..Len(body) :
                 LET user == SubSeq(body, 1, a - 1)
                     addr == SubSeq(body, a + 1, IF c = 0 THEN Len(body) ELSE c - 1)
                     port == SubSeq(body, c + 1, Len(body))
                 IN  ( /\ a = 0 \/ body[a] = "@"
                       /\ c = 0 \/ (body[c] = ":" /\ c > a)
                       /\ NoneOf(addr, {"@", ":", "/", Scheme})
                       /\ c # 0 => (port # <<>> /\ NoneOf(port, {"@", ":", "/", Scheme})) )
                     =>
                     IF addr \in DOMAIN extractedHostSSHConfig
                     THEN LET rec == extractedHostSSHConfig[addr]
                          IN  /\ h.User = rec.User
                              /\ h.Address = rec.HostName
                              /\ h.Port = DecimalString(rec.Port)
                              /\ h.IdentityFile = ResolvePath(rec.IdentityFile)
                              /\ h.Bastion = rec.ProxyJump
                              /\ h.KnownAs = rec.Host[1]
                     ELSE /\ h.User = IF user = <<>> THEN OSUser ELSE user
                          /\ h.Port = IF c = 0 THEN <<"22">> ELSE port
                          /\ h.Address = addr
                          /\ h.KnownAs = <<>>
                          /\ h.IdentityFile = <<>>
                          /\ h.Bastion = <<>>

C9_Witness ==
    /\ hpc = "done"
    /\ hostErr = {}
    /\ hostStr = <<Scheme, "deploy", "@", "web", ":", "2200">>
    /\ host = {[User |-> <<"root">>, Address |-> <<"10.0.0.9">>, Port |-> <<"2", "2", "2", "2">>,
                IdentityFile |-> <<HomeDir, ".ssh/id_rsa">>, KnownAs |-> <<"web">>,
                Bastion |-> <<"jump">>]}

\* the example of the specification: ssh://deploy@10.0.0.5:2200
C9_InlineWitness ==
    /\ hpc = "done"
    /\ hostStr = <<Scheme, "deploy", "@", "10.0.0.5", ":", "2200">>
    /\ host = {[User |-> <<"deploy">>, Address |-> <<"10.0.0.5">>, Port |-> <<"2200">>,
                IdentityFile |-> <<>>, KnownAs |-> <<>>, Bastion |-> <<>>]}

-----------------------------------------------------------------------------
(* Networks: the names in document order and the networks by name.         *)

MaxNames == 4

NetworkNames == {"prod", "dev", "staging"}

Perms(S) == {p \in [1..Cardinality(S) -> S] : \A i, j \in DOMAIN p : p[i] = p[j] => i = j}

\* Networks.Get
Get(name) ==
    [ok |-> name \in DOMAIN nets,
     net |-> IF name \in DOMAIN nets THEN nets[name] ELSE [Inventory |-> ""]]

\* the state UnmarshalYAML leaves: the decoded map, and the keys of the
\* yaml.MapSlice in document order
InitNets ==
    /\ nets \in MapsTo(NetworkNames, Network)
    /\ Names \in Perms(DOMAIN nets)

IdleNets ==
    /\ nets = <<>>
    /\ Names = <<>>

\* Networks.Set(name, network)
NetworksSet ==
    /\ Len(Names) < MaxNames
    /\ \E name \in NetworkNames, network \in Network :
          /\ nets' = [k \in DOMAIN nets \cup {name} |-> IF k = name THEN network ELSE nets[k]]
          /\ Names' = Append(Names, name)
    /\ UNCHANGED notNets

NextNets == NetworksSet

-----------------------------------------------------------------------------
(* Properties of Networks.                                                 *)

NameSet == {Names[i] : i \in 1..Len(Names)}

\* C10 as claimed: Names holds no name twice, and the names it holds are
\* exactly those Get finds.
C10_NamesUniqueAndInStore ==
    /\ \A i, j \in 1..Len(Names) : Names[i] = Names[j] => i = j
    /\ NameSet = {name \in NetworkNames : Get(name).ok}

\* What the code keeps: the names of Names are exactly those Get finds.
C10_NamesAreTheStoredOnes ==
    NameSet = {name \in NetworkNames : Get(name).ok}

-----------------------------------------------------------------------------
(* One specification per part of the package; the parts share no state.    *)

Init == InitGate /\ IdleEnv /\ IdleInv /\ IdleHost /\ IdleNets

Next == NextGate

Spec == Init /\ [][Next]_vars

InitSetSpec == InitSet /\ IdleGate /\ IdleInv /\ IdleHost /\ IdleNets

SpecSet == InitSetSpec /\ [][NextSet]_vars

InitResolveSpec == InitResolve /\ IdleGate /\ IdleInv /\ IdleHost /\ IdleNets

SpecResolve == InitResolveSpec /\ [][NextResolve]_vars

InitInvSpec == InitInv /\ IdleGate /\ IdleEnv /\ IdleHost /\ IdleNets

SpecInv == InitInvSpec /\ [][NextInv]_vars

InitHostSpec == InitHost /\ IdleGate /\ IdleEnv /\ IdleInv /\ IdleNets

SpecHost == InitHostSpec /\ [][NextHost]_vars

InitNetsSpec == InitNets /\ IdleGate /\ IdleEnv /\ IdleInv /\ IdleHost

SpecNets == InitNetsSpec /\ [][NextNets]_vars
====
